---------------------------- MODULE Spec2Model ----------------------------
(***************************************************************************)
(* State-machine model of the EdTech backend (src/app.py): the Flask       *)
(* request handlers, the course catalog df loaded at import time, and the  *)
(* external collaborators (Gemini API, SMTP relay, Firestore collection).  *)
(*                                                                         *)
(* Conventions.                                                            *)
(*  - A Python str is a tuple of one-character strings, so that lower(),   *)
(*    strip(), slicing and the regular-expression search of                *)
(*    Series.str.contains are computed, not assumed.                       *)
(*  - A JSON field is Absent, Null, Num(n) or Str(s).  gpa and             *)
(*    personality_min_gpa are carried in hundredths (7.59 is 759).         *)
(*  - A raised Python exception is a value with raised = TRUE; every       *)
(*    handler's  except Exception  turns it into that handler's 500.       *)
(***************************************************************************)
EXTENDS Integers, Sequences, FiniteSets, TLC

VARIABLES
  df,        \* the module-level catalog frame
  config,    \* GEMINI_API_KEY, EMAIL_USER, EMAIL_PASS and the Firestore client db
  req,       \* per endpoint, the request a worker thread is handling, if any
  feedback,  \* the documents of the Firestore collection "feedback"
  memo       \* a client's record of one earlier /analyze-profile answer

vars == <<df, config, req, feedback, memo>>

-----------------------------------------------------------------------------
(* JSON values and Python built-ins *)

Absent == [t |-> "absent"]
Null == [t |-> "null"]
Num(n) == [t |-> "num", n |-> n]
Str(s) == [t |-> "str", s |-> s]

Raised == [raised |-> TRUE]
Value(x) == [raised |-> FALSE, v |-> x]

\* dict.get(key, default): the default replaces an absent key only.
dict_get(field, default) == IF field = Absent THEN default ELSE field

\* bool(x) of a JSON field as  all([...])  and  x or y  read it.
truthy(field) ==
  /\ field.t \in {"num", "str"}
  /\ field.t = "str" => field.s # <<>>
  /\ field.t = "num" => field.n # 0

LowerChar(c) ==
  CASE c = "A" -> "a"
    [] c = "B" -> "b"
    [] c = "K" -> "k"
    [] c = "V" -> "v"
    [] OTHER -> c

\* str.lower()
lower(s) == [i \in 1..Len(s) |-> LowerChar(s[i])]

RECURSIVE lstrip(_)
lstrip(s) == IF s # <<>> /\ Head(s) = " " THEN lstrip(Tail(s)) ELSE s

RECURSIVE rstrip(_)
rstrip(s) ==
  IF s # <<>> /\ s[Len(s)] = " " THEN rstrip(SubSeq(s, 1, Len(s) - 1)) ELSE s

\* str.strip()
strip(s) == rstrip(lstrip(s))

\* float(x) / int(x): a number converts; the strings of this model hold no
\* digit, so converting one raises ValueError.
float(field) == IF field.t = "num" THEN Value(field.n) ELSE Raised

int(field) == IF field.t = "num" THEN Value(field.n) ELSE Raised

\* data.get(key, "").lower().strip(): a non-string has no lower().
lower_strip(field) ==
  IF field.t = "str" THEN Value(strip(lower(field.s))) ELSE Raised

\* int(x) of a float in tenths-of-hundredths: truncation toward zero.
trunc_div(n, d) == IF n >= 0 THEN n \div d ELSE -((-n) \div d)

-----------------------------------------------------------------------------
(* Series.str.contains(pat): pandas' default is regex=True, i.e.            *)
(* re.compile(pat) followed by pattern.search(value) on every row.  The     *)
(* alphabet of the model has one metacharacter, "+" (one or more of the     *)
(* preceding character).                                                    *)

\* re.compile: "+" with nothing before it raises re.error ("nothing to
\* repeat"); so does "+" directly after "+" on CPython <= 3.10 ("multiple
\* repeat") - no input of the model holds "++".
re_compiles(pat) ==
  \A i \in 1..Len(pat) : pat[i] = "+" => (i > 1 /\ pat[i - 1] # "+")

RECURSIVE re_atoms(_)
re_atoms(pat) ==
  IF pat = <<>> THEN <<>>
  ELSE IF Len(pat) >= 2 /\ pat[2] = "+"
       THEN <<[ch |-> pat[1], plus |-> TRUE]>> \o re_atoms(SubSeq(pat, 3, Len(pat)))
       ELSE <<[ch |-> pat[1], plus |-> FALSE]>> \o re_atoms(Tail(pat))

\* Do atoms i.. match a prefix of s[j..]?
RECURSIVE re_match_at(_, _, _, _)
re_match_at(atoms, i, s, j) ==
  IF i > Len(atoms) THEN TRUE
  ELSE IF j > Len(s) \/ s[j] # atoms[i].ch THEN FALSE
  ELSE IF atoms[i].plus
       THEN re_match_at(atoms, i, s, j + 1) \/ re_match_at(atoms, i + 1, s, j + 1)
       ELSE re_match_at(atoms, i + 1, s, j + 1)

\* pattern.search(s) is not None
re_search(pat, s) ==
  LET atoms == re_atoms(pat)
  IN \E j \in 1..(Len(s) + 1) : re_match_at(atoms, 1, s, j)

str_contains(s, pat) == re_search(pat, s)

-----------------------------------------------------------------------------
(* The catalog *)

TopN == 3
ScoreCap == 100

Row(goal, mingpa, lo, hi, style, course, univ, country) ==
  [career_goal |-> goal, personality_min_gpa |-> mingpa,
   min_budget |-> lo, max_budget |-> hi, learning_style |-> style,
   recommended_course |-> course, university |-> univ, country |-> country]

\* A course_data.csv (the file itself is not in the repository).
CourseTable ==
  << Row(<<"A", "b">>, 300, 1000, 5000, <<"V">>, "MSDS", "X", "US"),
     Row(<<"a", "+", "b">>, 300, 1000, 5000, <<"V">>, "CPP", "Y", "UK"),
     Row(<<"a", "a", "b">>, -200, 1000, 5000, <<"k">>, "MBA", "Z", "CA"),
     Row(<<"A", "b">>, 300, 6000, 9000, <<"K">>, "MSAI", "W", "DE"),
     Row(<<"A", "b">>, 800, 1000, 5000, <<"V">>, "PHD", "Q", "SG") >>

CourseRows == {CourseTable[i] : i \in DOMAIN CourseTable}

MaxRows == 4

\* pd.read_csv succeeded: a frame with the eight columns and these rows.
Loaded(rows) == [loaded |-> TRUE, rows |-> rows]

\* pd.read_csv raised: df = pd.DataFrame(), a frame with no columns.
EmptyFrame == [loaded |-> FALSE, rows |-> <<>>]

Catalogs ==
  {EmptyFrame} \cup
  {Loaded(rows) : rows \in UNION {[1..n -> CourseRows] : n \in 0..MaxRows}}

\* The query of run_filter(strict, drop_style, relax_budget) and df[query].
run_filter(rows, goal, gpa, budget, style, drop_style, relax_budget) ==
  LET query(r) ==
        /\ str_contains(lower(r.career_goal), goal)
        /\ r.personality_min_gpa <= gpa
        /\ ~relax_budget => (r.min_budget <= budget /\ r.max_budget >= budget)
        /\ ~drop_style => lower(r.learning_style) = style
  IN SelectSeq(rows, query)

\* DataFrame.head(n)
head(rows, n) == SubSeq(rows, 1, IF Len(rows) < n THEN Len(rows) ELSE n)

column(rows, name) == [i \in 1..Len(rows) |-> rows[i][name]]

\* min(100, int(gpa * 10))
match_score(gpa) ==
  LET s == trunc_div(gpa, 10) IN IF s < ScoreCap THEN s ELSE ScoreCap

AnalyzeFailed == [status |-> 500, error |-> "Profile analysis failed"]

NoCloseMatches == [status |-> 404, error |-> "No close matches found."]

\* The response of analyze_profile for request body data over catalog frame.
analyze_profile_response(frame, data) ==
  LET gpa == float(dict_get(data.gpa, Num(0)))
      goal == lower_strip(dict_get(data.career_goal, Str(<<>>)))
      budget == int(dict_get(data.budget, Num(0)))
      style == lower_strip(dict_get(data.learning_style, Str(<<>>)))
  IN IF gpa.raised \/ goal.raised \/ budget.raised \/ style.raised
       THEN AnalyzeFailed
     ELSE IF ~frame.loaded
       THEN AnalyzeFailed      \* df['career_goal'] raises KeyError
     ELSE IF ~re_compiles(goal.v)
       THEN AnalyzeFailed      \* str.contains raises re.error
     ELSE
       LET strict == run_filter(frame.rows, goal.v, gpa.v, budget.v, style.v, FALSE, FALSE)
           nostyle == run_filter(frame.rows, goal.v, gpa.v, budget.v, style.v, TRUE, FALSE)
           relaxed == run_filter(frame.rows, goal.v, gpa.v, budget.v, style.v, TRUE, TRUE)
           matched == IF strict # <<>> THEN strict
                      ELSE IF nostyle # <<>> THEN nostyle ELSE relaxed
           top == head(matched, TopN)
       IN IF matched = <<>> THEN NoCloseMatches
          ELSE [status |-> 200,
                recommended_courses |-> column(top, "recommended_course"),
                top_universities |-> column(top, "university"),
                recommended_countries |-> column(top, "country"),
                match_score |-> match_score(gpa.v)]

-----------------------------------------------------------------------------
(* Requests in flight *)

Endpoints ==
  {"home", "analyze_profile", "generate_plan", "send_email",
   "submit_feedback", "career_insights"}

Idle == [pc |-> "idle"]

Responded(data, resp) == [pc |-> "responded", data |-> data, resp |-> resp]

\* Worker threads the server runs at once.
MaxInFlight == 2

InFlight == Cardinality({e \in Endpoints : req[e].pc # "idle"})

Accepts(e) == req[e].pc = "idle" /\ InFlight < MaxInFlight

-----------------------------------------------------------------------------
(* GET / *)

home ==
  /\ Accepts("home")
  /\ req' = [req EXCEPT !["home"] = Responded(Absent, [status |-> 200, text |-> "EdTech backend is running!"])]
  /\ UNCHANGED <<df, config, feedback, memo>>

-----------------------------------------------------------------------------
(* POST /analyze-profile *)

Profile(gpa, goal, budget, style) ==
  [personality |-> Str(<<"A">>), gpa |-> gpa, career_goal |-> goal,
   budget |-> budget, learning_style |-> style]

Profiles ==
  { Profile(gpa, goal, budget, style) :
      gpa \in {Absent, Num(-100), Num(759), Num(1100), Str(<<"x">>)},
      goal \in {Absent, Str(<<" ", "a", "B", " ">>), Str(<<"a", "+", "b">>),
                Str(<<"+">>), Str(<<"x">>)},
      budget \in {Absent, Num(5000), Num(7000), Num(20000), Str(<<"x">>)},
      style \in {Absent, Str(<<" ", "V">>), Str(<<"k">>), Str(<<"x">>)} }

\* The profiles sent while the other endpoints are busy.
FewProfiles ==
  { Profile(Num(759), Str(<<" ", "a", "B", " ">>), Num(5000), Str(<<" ", "V">>)),
    Profile(Num(759), Str(<<"x">>), Num(5000), Str(<<"k">>)),
    Profile(Str(<<"x">>), Absent, Num(7000), Absent) }

NoMemo == [pc |-> "none"]

\* A handler that rebinds the global: df = df[query].
df_rebound_to_match(frame, data) ==
  LET resp == analyze_profile_response(frame, data)
      kept(r) == \E i \in DOMAIN resp.recommended_courses :
                   resp.recommended_courses[i] = r.recommended_course
  IN IF resp.status = 200 THEN [frame EXCEPT !.rows = SelectSeq(frame.rows, kept)]
     ELSE frame

\* run_filter returns df[query], a new frame: the global df is not rebound.
df_after_filter(frame, data) == frame

analyze_profile(data, remember) ==
  /\ Accepts("analyze_profile")
  /\ LET resp == analyze_profile_response(df, data)
     IN /\ req' = [req EXCEPT !["analyze_profile"] = Responded(data, resp)]
        /\ memo' = IF remember /\ memo = NoMemo
                   THEN [pc |-> "kept", data |-> data, resp |-> resp]
                   ELSE memo
  /\ df' = df_after_filter(df, data)
  /\ UNCHANGED <<config, feedback>>

-----------------------------------------------------------------------------
(* The Gemini generateContent call shared by /generate-plan and             *)
(* /career-insights: what requests.post returns or raises.                  *)

Part(has_text) == [has_text |-> has_text, text |-> "generated text"]

Candidate(has_content, has_parts, parts) ==
  [has_content |-> has_content, has_parts |-> has_parts, parts |-> parts]

Body(has_candidates, candidates) ==
  [is_json |-> TRUE, has_candidates |-> has_candidates, candidates |-> candidates]

NotJson == [is_json |-> FALSE]

Http(status_code, text, json) ==
  [raised |-> FALSE, status_code |-> status_code, text |-> text, json |-> json]

GeminiReplies ==
  { Raised,                                              \* timeout, connection error
    Http(429, "quota exceeded", Body(FALSE, <<>>)),
    Http(500, "upstream error page", NotJson),
    Http(200, "not json", NotJson),
    Http(200, "{}", Body(FALSE, <<>>)),
    Http(200, "no candidates", Body(TRUE, <<>>)),
    Http(200, "blocked", Body(TRUE, <<Candidate(FALSE, FALSE, <<>>)>>)),
    Http(200, "no parts", Body(TRUE, <<Candidate(TRUE, FALSE, <<>>)>>)),
    Http(200, "empty parts", Body(TRUE, <<Candidate(TRUE, TRUE, <<>>)>>)),
    Http(200, "part without text", Body(TRUE, <<Candidate(TRUE, TRUE, <<Part(FALSE)>>)>>)),
    Http(200, "plan", Body(TRUE, <<Candidate(TRUE, TRUE, <<Part(TRUE)>>)>>)) }

\* gemini_response['candidates'][0]['content']['parts']
first_parts(json) ==
  LET c == json.candidates[1]
  IN IF c.has_content /\ c.has_parts THEN Value(c.parts) ELSE Raised

-----------------------------------------------------------------------------
(* POST /generate-plan *)

PlanRequests ==
  { [exam_type |-> Absent, target_score |-> Absent, weeks |-> Absent, weak_areas |-> Absent],
    [exam_type |-> Str(<<"G">>), target_score |-> Num(320), weeks |-> Num(8),
     weak_areas |-> Str(<<"V">>)] }

\* The values interpolated into the prompt.
plan_prompt(data) ==
  [exam |-> dict_get(data.exam_type, Str(<<"G", "R", "E">>)),
   score |-> dict_get(data.target_score, Str(<<"3", "0", "0">>)),
   weeks |-> dict_get(data.weeks, Str(<<"6">>)),
   weak_areas |-> IF truthy(data.weak_areas) THEN data.weak_areas
                  ELSE Str(<<"general preparation">>)]

PlanFailed == [status |-> 500, error |-> "Failed to generate plan"]

\* Lines 129-145, given what requests.post returned or raised.
generate_plan_response(reply) ==
  IF reply.raised THEN PlanFailed
  ELSE IF reply.status_code # 200
    THEN [status |-> 500, error |-> "Gemini API failed", details |-> reply.text]
  ELSE IF ~reply.json.is_json THEN PlanFailed
  ELSE IF reply.json.has_candidates /\ reply.json.candidates # <<>>
    THEN LET parts == first_parts(reply.json)
         IN IF parts.raised THEN PlanFailed
            ELSE [status |-> 200,
                  plan |-> IF parts.v # <<>> /\ parts.v[1].has_text
                           THEN parts.v[1].text ELSE "(No content)"]
  ELSE [status |-> 500, error |-> "No insights from Gemini", raw |-> reply.json]

generate_plan(data) ==
  /\ Accepts("generate_plan")
  /\ req' = [req EXCEPT !["generate_plan"] =
               [pc |-> "post", data |-> data, prompt |-> plan_prompt(data),
                key |-> config.GEMINI_API_KEY]]
  /\ UNCHANGED <<df, config, feedback, memo>>

generate_plan_reply(reply) ==
  /\ req["generate_plan"].pc = "post"
  /\ req' = [req EXCEPT !["generate_plan"] =
               [pc |-> "responded", data |-> req["generate_plan"].data,
                reply |-> reply, resp |-> generate_plan_response(reply)]]
  /\ UNCHANGED <<df, config, feedback, memo>>

-----------------------------------------------------------------------------
(* POST /career-insights *)

InsightRequests == {[goal |-> g] : g \in {Absent, Str(<<" ">>), Str(<<" ", "A", "b">>)}}

InsightsFailed == [status |-> 500, error |-> "Failed to fetch insights"]

\* Lines 240-250: no status check, no check of the candidate's shape.
career_insights_response(reply) ==
  IF reply.raised \/ ~reply.json.is_json THEN InsightsFailed
  ELSE IF reply.json.has_candidates
    THEN IF reply.json.candidates = <<>> THEN InsightsFailed
         ELSE LET parts == first_parts(reply.json)
              IN IF parts.raised \/ parts.v = <<>> \/ ~parts.v[1].has_text
                 THEN InsightsFailed
                 ELSE [status |-> 200, insights |-> parts.v[1].text]
  ELSE [status |-> 500, error |-> "No insights found", details |-> reply.json]

career_insights(data) ==
  /\ Accepts("career_insights")
  /\ LET goal == lower_strip(dict_get(data.goal, Str(<<>>)))
     IN req' = [req EXCEPT !["career_insights"] =
                  IF goal.raised THEN Responded(data, InsightsFailed)
                  ELSE IF goal.v = <<>>
                  THEN Responded(data, [status |-> 400, error |-> "Career goal missing"])
                  ELSE [pc |-> "post", data |-> data, goal |-> goal.v,
                        key |-> config.GEMINI_API_KEY]]
  /\ UNCHANGED <<df, config, feedback, memo>>

career_insights_reply(reply) ==
  /\ req["career_insights"].pc = "post"
  /\ req' = [req EXCEPT !["career_insights"] =
               [pc |-> "responded", data |-> req["career_insights"].data,
                reply |-> reply, resp |-> career_insights_response(reply)]]
  /\ UNCHANGED <<df, config, feedback, memo>>

-----------------------------------------------------------------------------
(* POST /send-email *)

\* A field left out, sent as null, sent empty, or sent with a value.
MailFields == {Absent, Null, Str(<<>>), Str(<<"x">>)}

MailRequests ==
  { [to_email |-> e, to_name |-> n, plan_text |-> p, type |-> t] :
      e \in MailFields, n \in {Absent, Str(<<"n">>)}, p \in MailFields, t \in MailFields }

\* A validation that looks at the recipient only.
missing_recipient_only(data) == ~truthy(data.to_email)

\* not all([to_email, plan_text, exam_type])
missing_email_parameters(data) ==
  ~(truthy(data.to_email) /\ truthy(data.plan_text) /\ truthy(data.type))

\* The calls made on the relay, in the order of lines 176-180.
SmtpCalls == <<"SMTP", "starttls", "login", "sendmail", "quit">>

send_email(data) ==
  /\ Accepts("send_email")
  /\ req' = [req EXCEPT !["send_email"] =
               IF missing_email_parameters(data)
               THEN [pc |-> "responded", data |-> data, log |-> <<>>,
                     resp |-> [status |-> 400, error |-> "Missing email parameters"]]
               ELSE [pc |-> "smtp", data |-> data, log |-> <<>>,
                     msg |-> [Subject |-> data.type, From |-> config.EMAIL_USER,
                              To |-> data.to_email,
                              name |-> IF truthy(data.to_name) THEN data.to_name
                                       ELSE Str(<<"Student">>),
                              plan |-> data.plan_text]]]
  /\ UNCHANGED <<df, config, feedback, memo>>

\* The next relay call returns (ok) or raises.
smtp_call(ok) ==
  LET r == req["send_email"]
      call == SmtpCalls[Len(r.log) + 1]
      log == Append(r.log, [call |-> call, ok |-> ok])
  IN /\ r.pc = "smtp"
     /\ req' = [req EXCEPT !["send_email"] =
                  IF ~ok
                  THEN [pc |-> "responded", data |-> r.data, log |-> log,
                        resp |-> [status |-> 500, error |-> "Failed to send email"]]
                  ELSE IF call = "quit"
                  THEN [pc |-> "responded", data |-> r.data, log |-> log,
                        resp |-> [status |-> 200, message |-> "Email sent successfully"]]
                  ELSE [r EXCEPT !.log = log]]
     /\ UNCHANGED <<df, config, feedback, memo>>

-----------------------------------------------------------------------------
(* POST /submit-feedback *)

ExcerptLen == 100

\* Longest plan_text submitted.
MaxPlanLen == 101

\* Documents the collection holds before submissions stop.
MaxFeedback == 2

PlanText(n) == [i \in 1..n |-> IF i % 2 = 1 THEN "a" ELSE "b"]

PlanLens == {0, 1} \cup ((ExcerptLen - 1)..MaxPlanLen)

FeedbackRequests ==
  { [exam_type |-> x, rating |-> Num(5), comment |-> Absent, plan_text |-> p] :
      x \in {Absent, Str(<<"G">>)},
      p \in {Absent, Null} \cup {Str(PlanText(n)) : n \in PlanLens} }

\* The excerpt without the [:100] slice.
plan_excerpt_whole(field) ==
  LET text == dict_get(field, Str(<<>>))
  IN IF text.t # "str" THEN Raised ELSE Value(text.s)

\* data.get("plan_text", "")[:100]; None is not subscriptable.
plan_excerpt(field) ==
  LET text == dict_get(field, Str(<<>>))
  IN IF text.t # "str" THEN Raised
     ELSE Value(SubSeq(text.s, 1, IF Len(text.s) < ExcerptLen THEN Len(text.s) ELSE ExcerptLen))

FeedbackFailed == [status |-> 500, error |-> "Feedback submission failed"]

submit_feedback(data) ==
  /\ Accepts("submit_feedback")
  /\ Len(feedback) < MaxFeedback
  /\ LET excerpt == plan_excerpt(data.plan_text)
     IN req' = [req EXCEPT !["submit_feedback"] =
                  IF excerpt.raised THEN Responded(data, FeedbackFailed)
                  ELSE [pc |-> "add", data |-> data,
                        feedback_entry |->
                          [timestamp |-> "SERVER_TIMESTAMP", exam_type |-> data.exam_type,
                           rating |-> data.rating, comment |-> data.comment,
                           plan_excerpt |-> excerpt.v]]]
  /\ UNCHANGED <<df, config, feedback, memo>>

\* db.collection("feedback").add(feedback_entry) returns (ok) or raises.
firestore_add(ok) ==
  LET r == req["submit_feedback"]
  IN /\ r.pc = "add"
     /\ feedback' = IF ok THEN Append(feedback, r.feedback_entry) ELSE feedback
     /\ req' = [req EXCEPT !["submit_feedback"] =
                  IF ok THEN [r EXCEPT !.pc = "added"]
                  ELSE Responded(r.data, FeedbackFailed)]
     /\ UNCHANGED <<df, config, memo>>

submit_feedback_return ==
  LET r == req["submit_feedback"]
  IN /\ r.pc = "added"
     /\ req' = [req EXCEPT !["submit_feedback"] =
                  Responded(r.data, [status |-> 200, message |-> "Feedback stored in Firebase"])]
     /\ UNCHANGED <<df, config, feedback, memo>>

-----------------------------------------------------------------------------
(* The server *)

\* The response has gone out; the worker is free again.
response_sent(e) ==
  /\ req[e].pc = "responded"
  /\ req' = [req EXCEPT ![e] = Idle]
  /\ UNCHANGED <<df, config, feedback, memo>>

Environment ==
  [GEMINI_API_KEY |-> "gemini-key", EMAIL_USER |-> "user@gmail.com",
   EMAIL_PASS |-> "app-password", db |-> "firestore.client()"]

\* Module initialisation, lines 17-48.
Startup(frames) ==
  /\ df \in frames
  /\ config = Environment
  /\ req = [e \in Endpoints |-> Idle]
  /\ feedback = <<>>
  /\ memo = NoMemo

\* Inputs of the whole server: one or two requests of each kind per endpoint.
FewPlanRequests == {[exam_type |-> Str(<<"G">>), target_score |-> Absent, weeks |-> Absent, weak_areas |-> Absent]}

FewMailRequests ==
  { [to_email |-> Str(<<"x">>), to_name |-> Absent, plan_text |-> p, type |-> Str(<<"x">>)] :
      p \in {Absent, Str(<<"x">>)} }

FewFeedbackRequests ==
  { [exam_type |-> Absent, rating |-> Num(5), comment |-> Absent, plan_text |-> p] :
      p \in {Null, Str(PlanText(MaxPlanLen))} }

FewInsightRequests == {[goal |-> g] : g \in {Absent, Str(<<" ", "A", "b">>)}}

Init == Startup({EmptyFrame, Loaded(CourseTable)})

Next ==
  \/ home
  \/ \E data \in FewProfiles : analyze_profile(data, TRUE)
  \/ \E data \in FewPlanRequests : generate_plan(data)
  \/ \E reply \in GeminiReplies : generate_plan_reply(reply)
  \/ \E data \in FewMailRequests : send_email(data)
  \/ \E ok \in BOOLEAN : smtp_call(ok)
  \/ \E data \in FewFeedbackRequests : submit_feedback(data)
  \/ \E ok \in BOOLEAN : firestore_add(ok)
  \/ submit_feedback_return
  \/ \E data \in FewInsightRequests : career_insights(data)
  \/ \E reply \in GeminiReplies : career_insights_reply(reply)
  \/ \E e \in Endpoints : response_sent(e)

Spec == Init /\ [][Next]_vars

\* The matcher alone, over every catalog of up to MaxRows rows.
InitMatch == Startup(Catalogs)

NextMatch ==
  \/ \E data \in Profiles : analyze_profile(data, FALSE)
  \/ response_sent("analyze_profile")

SpecMatch == InitMatch /\ [][NextMatch]_vars

\* The two generation endpoints, over every reply of the Gemini call.
NextGemini ==
  \/ \E data \in PlanRequests : generate_plan(data)
  \/ \E reply \in GeminiReplies : generate_plan_reply(reply)
  \/ \E data \in InsightRequests : career_insights(data)
  \/ \E reply \in GeminiReplies : career_insights_reply(reply)
  \/ \E e \in {"generate_plan", "career_insights"} : response_sent(e)

SpecGemini == Init /\ [][NextGemini]_vars

\* /send-email alone, over every request body.
NextMail ==
  \/ \E data \in MailRequests : send_email(data)
  \/ \E ok \in BOOLEAN : smtp_call(ok)
  \/ response_sent("send_email")

SpecMail == Init /\ [][NextMail]_vars

\* /submit-feedback alone, over every request body.
NextFeedback ==
  \/ \E data \in FeedbackRequests : submit_feedback(data)
  \/ \E ok \in BOOLEAN : firestore_add(ok)
  \/ submit_feedback_return
  \/ response_sent("submit_feedback")

SpecFeedback == Init /\ [][NextFeedback]_vars

-----------------------------------------------------------------------------
(* The matcher as section 4.1 words it, on the profile as the handler       *)
(* normalises it (lower-cased, stripped, absent numbers as 0).              *)

WellFormed(data) ==
  /\ data.gpa.t \in {"absent", "num"}
  /\ data.budget.t \in {"absent", "num"}
  /\ data.career_goal.t \in {"absent", "str"}
  /\ data.learning_style.t \in {"absent", "str"}

Normalised(data) ==
  [gpa |-> dict_get(data.gpa, Num(0)).n,
   career_goal |-> strip(lower(dict_get(data.career_goal, Str(<<>>)).s)),
   budget |-> dict_get(data.budget, Num(0)).n,
   learning_style |-> strip(lower(dict_get(data.learning_style, Str(<<>>)).s))]

\* needle occurs in hay as a substring.
IsSubstring(needle, hay) ==
  \E k \in 0..(Len(hay) - Len(needle)) : SubSeq(hay, k + 1, k + Len(needle)) = needle

GoalAndGpa(r, p) ==
  /\ IsSubstring(p.career_goal, lower(r.career_goal))
  /\ r.personality_min_gpa <= p.gpa

InBudget(r, p) == r.min_budget <= p.budget /\ p.budget <= r.max_budget

SameStyle(r, p) == lower(r.learning_style) = p.learning_style

StrictTier(rows, p) ==
  LET m(r) == GoalAndGpa(r, p) /\ InBudget(r, p) /\ SameStyle(r, p) IN SelectSeq(rows, m)

DropStyleTier(rows, p) ==
  LET m(r) == GoalAndGpa(r, p) /\ InBudget(r, p) IN SelectSeq(rows, m)

RelaxBudgetTier(rows, p) ==
  LET m(r) == GoalAndGpa(r, p) IN SelectSeq(rows, m)

FirstNonemptyTier(rows, p) ==
  IF StrictTier(rows, p) # <<>> THEN StrictTier(rows, p)
  ELSE IF DropStyleTier(rows, p) # <<>> THEN DropStyleTier(rows, p)
  ELSE RelaxBudgetTier(rows, p)

FirstRows(rows, n) == [i \in 1..(IF Len(rows) < n THEN Len(rows) ELSE n) |-> rows[i]]

Analyzed == req["analyze_profile"]

\* C1: over a catalog with rows and a well-formed profile, when some tier
\* matches, the response is a success whose three lists are the projections,
\* in catalog order, of the first min(3, n) rows of the first nonempty tier
\* (Strict, then Drop-style, then Drop-style+relax-budget); and a success
\* carries rows only when some tier matches.
C1_FirstNonemptyTier ==
  (Analyzed.pc = "responded" /\ df.loaded /\ df.rows # <<>> /\ WellFormed(Analyzed.data)) =>
    LET first == FirstNonemptyTier(df.rows, Normalised(Analyzed.data))
        top == FirstRows(first, 3)
    IN IF first = <<>> THEN Analyzed.resp.status # 200
       ELSE /\ Analyzed.resp.status = 200
            /\ Analyzed.resp.recommended_courses = [i \in DOMAIN top |-> top[i].recommended_course]
            /\ Analyzed.resp.top_universities = [i \in DOMAIN top |-> top[i].university]
            /\ Analyzed.resp.recommended_countries = [i \in DOMAIN top |-> top[i].country]

\* C2: over a catalog with rows and a well-formed profile, when all three
\* tiers are empty the answer is 404; and every success response carries
\* between 1 and 3 matches in each of its three lists.
C2_NoMatchIs404 ==
  (Analyzed.pc = "responded" /\ df.loaded /\ df.rows # <<>> /\ WellFormed(Analyzed.data)) =>
    /\ RelaxBudgetTier(df.rows, Normalised(Analyzed.data)) = <<>> => Analyzed.resp.status = 404
    /\ Analyzed.resp.status = 200 =>
         /\ Len(Analyzed.resp.recommended_courses) \in 1..3
         /\ Len(Analyzed.resp.top_universities) = Len(Analyzed.resp.recommended_courses)
         /\ Len(Analyzed.resp.recommended_countries) = Len(Analyzed.resp.recommended_courses)

\* C3: every catalog row that satisfies all four Strict conditions for a
\* well-formed profile appears (course, university, country) in the response
\* for that profile, however many other rows match.
C3_StrictRowReturned ==
  (Analyzed.pc = "responded" /\ df.loaded /\ WellFormed(Analyzed.data)) =>
    \A k \in DOMAIN df.rows :
      LET r == df.rows[k]
          p == Normalised(Analyzed.data)
      IN (GoalAndGpa(r, p) /\ InBudget(r, p) /\ SameStyle(r, p)) =>
           /\ Analyzed.resp.status = 200
           /\ \E i \in DOMAIN Analyzed.resp.recommended_courses :
                /\ Analyzed.resp.recommended_courses[i] = r.recommended_course
                /\ Analyzed.resp.top_universities[i] = r.university
                /\ Analyzed.resp.recommended_countries[i] = r.country

\* gpa x 10, truncated, clamped to [0, 100] as the data model's invariant has it.
ClampedScore(gpa) ==
  LET t == IF gpa >= 0 THEN gpa \div 10 ELSE -((-gpa) \div 10)
  IN IF t < 0 THEN 0 ELSE IF t > 100 THEN 100 ELSE t

\* C4: in every success response match_score is an integer within [0, 100]
\* fixed by gpa alone: gpa x 10 truncated and clamped, for negative gpa too.
C4_ScoreWithin0And100 ==
  (Analyzed.pc = "responded" /\ Analyzed.resp.status = 200) =>
    /\ Analyzed.resp.match_score \in 0..100
    /\ Analyzed.resp.match_score = ClampedScore(Normalised(Analyzed.data).gpa)

\* C5: a request whose gpa or budget is not a number is answered 400
\* (MalformedInput), not the generic 500, and never with a match result.
C5_MalformedIs400 ==
  (Analyzed.pc = "responded" /\ (Analyzed.data.gpa.t = "str" \/ Analyzed.data.budget.t = "str")) =>
    Analyzed.resp.status = 400

\* C6: after a failed catalog load (empty catalog) every well-formed profile
\* is answered with the no-match 404, not with the generic 500.
C6_EmptyCatalogIs404 ==
  (Analyzed.pc = "responded" /\ ~df.loaded /\ WellFormed(Analyzed.data)) =>
    Analyzed.resp.status = 404

-----------------------------------------------------------------------------
(* /generate-plan *)

Planned == req["generate_plan"]

UpstreamSuccess(reply) == ~reply.raised /\ reply.status_code = 200

UpstreamFailure(reply) == ~reply.raised /\ reply.status_code # 200

\* A non-empty candidates list whose first candidate has a first part with text.
ExpectedStructure(json) ==
  /\ json.is_json
  /\ json.has_candidates
  /\ json.candidates # <<>>
  /\ json.candidates[1].has_content
  /\ json.candidates[1].has_parts
  /\ json.candidates[1].parts # <<>>
  /\ json.candidates[1].parts[1].has_text

\* C7: /generate-plan answers 200 with plan text only for an upstream success
\* carrying the expected structure; an upstream non-success gives the
\* "Gemini API failed" 500 with the raw body; an upstream success without the
\* expected structure gives the "no content" 500 with the raw payload.
C7_PlanOnlyFromExpectedStructure ==
  Planned.pc = "responded" =>
    /\ Planned.resp.status = 200 =>
         (UpstreamSuccess(Planned.reply) /\ ExpectedStructure(Planned.reply.json))
    /\ UpstreamFailure(Planned.reply) =>
         Planned.resp = [status |-> 500, error |-> "Gemini API failed",
                         details |-> Planned.reply.text]
    /\ (UpstreamSuccess(Planned.reply) /\ ~ExpectedStructure(Planned.reply.json)) =>
         Planned.resp = [status |-> 500, error |-> "No insights from Gemini",
                         raw |-> Planned.reply.json]

-----------------------------------------------------------------------------
(* /send-email *)

Mailed == req["send_email"]

AbsentOrEmpty(field) == field = Absent \/ field = Str(<<>>)

Present(field) == field.t = "str" /\ Len(field.s) > 0

SendmailReturned(log) == \E i \in DOMAIN log : log[i] = [call |-> "sendmail", ok |-> TRUE]

\* C8: a /send-email request with to_email, plan_text or type absent or empty
\* is answered 400 with no call made on the mail relay; the relay is called
\* only for a request with all three present; and the 200 confirmation is
\* given only after sendmail has returned without error.
C8_NoRelayWithoutParameters ==
  Mailed.pc # "idle" =>
    /\ (AbsentOrEmpty(Mailed.data.to_email) \/ AbsentOrEmpty(Mailed.data.plan_text)
          \/ AbsentOrEmpty(Mailed.data.type)) =>
         (Mailed.pc = "responded" /\ Mailed.resp.status = 400 /\ Mailed.log = <<>>)
    /\ Mailed.log # <<>> =>
         (Present(Mailed.data.to_email) /\ Present(Mailed.data.plan_text)
            /\ Present(Mailed.data.type))
    /\ (Mailed.pc = "responded" /\ Mailed.resp.status = 200) => SendmailReturned(Mailed.log)

\* A request without plan_text, refused before any relay call.
C8_Witness ==
  /\ Mailed.pc = "responded"
  /\ Mailed.data.plan_text = Absent
  /\ Present(Mailed.data.to_email) /\ Present(Mailed.data.type)
  /\ Mailed.resp.status = 400
  /\ Mailed.log = <<>>

-----------------------------------------------------------------------------
(* /submit-feedback *)

Submitted == req["submit_feedback"]

IsPrefix(p, t) == Len(p) <= Len(t) /\ \A i \in 1..Len(p) : p[i] = t[i]

SubmittedText(data) == IF data.plan_text.t = "str" THEN data.plan_text.s ELSE <<>>

Stored(r) == r.pc = "added" \/ (r.pc = "responded" /\ r.resp.status = 200)

ExcerptsBounded ==
  /\ \A i \in DOMAIN feedback : Len(feedback[i].plan_excerpt) <= 100
  /\ Stored(Submitted) =>
       /\ feedback # <<>>
       /\ IsPrefix(feedback[Len(feedback)].plan_excerpt, SubmittedText(Submitted.data))

OneRecordPerSubmission ==
  LET r == req["submit_feedback"]
      r1 == req'["submit_feedback"]
  IN /\ feedback' # feedback =>
          /\ r.pc = "add" /\ r1.pc = "added"
          /\ Len(feedback') = Len(feedback) + 1
          /\ SubSeq(feedback', 1, Len(feedback)) = feedback
     /\ (r.pc # "responded" /\ r1.pc = "responded" /\ r1.resp.status = 200) =>
          (r.pc = "added" /\ feedback' = feedback)
     /\ (r.pc = "add" /\ r1.pc = "responded") =>
          (r1.resp.status = 500 /\ feedback' = feedback)
     /\ (r.pc = "add" /\ r1.pc = "added") => feedback' = Append(feedback, r.feedback_entry)

\* C9: every record of the feedback collection has a plan_excerpt of at most
\* 100 characters that is a prefix of the submitted plan_text; the collection
\* changes only by the add call of a submission appending one record; the 200
\* confirmation follows the returned add call; a failed add is answered 500.
C9_ExcerptAndSingleAppend == []ExcerptsBounded /\ [][OneRecordPerSubmission]_vars

\* A plan_text longer than 100 characters stored and confirmed.
C9_Witness ==
  /\ Submitted.pc = "responded"
  /\ Submitted.resp.status = 200
  /\ Len(SubmittedText(Submitted.data)) > 100
  /\ Len(feedback[Len(feedback)].plan_excerpt) = 100

-----------------------------------------------------------------------------
(* Process-wide state *)

SameAnswerAsBefore ==
  LET a == req'["analyze_profile"]
  IN (a.pc = "responded" /\ memo.pc = "kept" /\ a.data = memo.data) => a.resp = memo.resp

\* C10: no step of any handler, finished or failed, alone or interleaved with
\* the other endpoints' requests, changes the catalog or the configuration;
\* and /analyze-profile answers a profile as it answered it before.
C10_CatalogAndConfigFrozen == [][df' = df /\ config' = config /\ SameAnswerAsBefore]_vars

\* A profile answered again, as before, after a stored feedback and while a
\* /send-email request has failed.
C10_Witness ==
  /\ memo.pc = "kept"
  /\ Analyzed.pc = "responded" /\ Analyzed.data = memo.data /\ Analyzed.resp = memo.resp
  /\ Analyzed.resp.status = 200
  /\ feedback # <<>>
  /\ Mailed.pc = "responded" /\ Mailed.resp.status = 500

=============================================================================
